---- MODULE Spec2Model ----
(***************************************************************************)
(* A model of zenml's AWS Batch step operator                              *)
(* (src/zenml/integrations/aws/step_operators/aws_batch_step_operator.py). *)
(*                                                                         *)
(* Text is a sequence of one-character strings, so that slicing, joining   *)
(* and str(int) are computed and not assumed.  Optional[T] is <<>> (None)  *)
(* or <<v>>.  A float is the rational numerator / CpuDenom.  A Python      *)
(* value whose runtime type decides a branch carries a tag t.              *)
(***************************************************************************)
EXTENDS Integers, Sequences, FiniteSets, TLC

VARIABLES
    info,                 \* the inputs of the call: StepRunInfo, settings, config
    pc,                   \* where the call is
    result,               \* what a helper returned
    logs,                 \* what went to the logger, in order
    job_definition,       \* launch: the compiled definition (line 420)
    job_definition_name,  \* launch: response['jobDefinitionName'] (line 428)
    job_id,               \* launch: response['jobId'] (line 436)
    response,             \* launch: outcome of the last describe_jobs (line 440)
    error,                \* the exception that left the call, if any
    calls                 \* every call on the batch client and every sleep, in order

vars == <<info, pc, result, logs, job_definition, job_definition_name,
          job_id, response, error, calls>>

----------------------------------------------------------------------------
(* Bounds of the model *)

MaxNameLen == 30      \* longest pipeline name and longest step name
CpuDenom == 10        \* cpu_count is a multiple of 1/CpuDenom
MaxCpuNum == 35       \* largest cpu_count numerator
MaxGpu == 2
MaxNodes == 4         \* largest node_count
MaxPolls == 3         \* describe_jobs calls explored in one launch

(* Constants of the program *)

NameLimit == 55       \* f"..."[:55]
SuffixLen == 4        \* random_str(4)
PollInterval == 10    \* time.sleep(10)

----------------------------------------------------------------------------
(* Python values *)

None == <<>>
Some(v) == <<v>>

Min(a, b) == IF a <= b THEN a ELSE b

\* s[:n] for n >= 0
Slice(s, n) == SubSeq(s, 1, Min(Len(s), n))

Rep(c, n) == [i \in 1..n |-> c]

DigitChars == <<"0", "1", "2", "3", "4", "5", "6", "7", "8", "9">>

RECURSIVE NatStr(_)
NatStr(n) ==
    IF n < 10 THEN <<DigitChars[n + 1]>>
    ELSE NatStr(n \div 10) \o <<DigitChars[(n % 10) + 1]>>

\* str(n) for an int n
PyStrOfInt(n) == IF n < 0 THEN <<"-">> \o NatStr(-n) ELSE NatStr(n)

\* sep.join(parts)
RECURSIVE Join(_, _)
Join(sep, parts) ==
    IF parts = <<>> THEN <<>>
    ELSE IF Len(parts) = 1 THEN parts[1]
    ELSE parts[1] \o sep \o Join(sep, Tail(parts))

\* math.ceil(num / den), den > 0
Ceil(num, den) == -((-num) \div den)

\* a == b for two tagged values: values of different types are unequal
PyEq(a, b) == a.t = b.t /\ a.v = b.v
PyStr(s) == [t |-> "str", v |-> s]
PyList(xs) == [t |-> "list", v |-> xs]

\* the outcome of a call: a value, or an exception leaving it
Return(v) == [ok |-> TRUE, exc |-> "", v |-> v]
Raise(e) == [ok |-> FALSE, exc |-> e, v |-> <<>>]

----------------------------------------------------------------------------
(* zenml.config.ResourceSettings, as the operator uses it *)

\* ResourceSettings.empty: no field is set
ResourceSettingsEmpty(rs) ==
    rs.cpu_count = None /\ rs.gpu_count = None /\ rs.memory = None

\* ResourceSettings.get_memory(unit="MiB"): memory is held in KiB; the
\* value is the rational <<numerator, denominator>>
get_memory_MiB(rs) ==
    IF rs.memory = None THEN None ELSE Some(<<rs.memory[1], 1024>>)

----------------------------------------------------------------------------
(* map_environment *)

\* environment is the dict as the sequence of its <<key, value>> items
map_environment(environment) ==
    [i \in 1..Len(environment) |->
        [name |-> environment[i][1], value |-> environment[i][2]]]

----------------------------------------------------------------------------
(* map_resource_settings *)

\* int(cpu_count) in place of math.ceil(cpu_count)
cpu_count_int_truncated(cpu_count) == cpu_count \div CpuDenom

\* cpu_count_int = math.ceil(resource_settings.cpu_count)
cpu_count_int(cpu_count) == Ceil(cpu_count, CpuDenom)

\* returns the mapped list and the logger.info lines written on the way
map_resource_settings(rs) ==
    IF ResourceSettingsEmpty(rs)
    THEN [mapped |-> <<>>, logged |-> <<>>]
    ELSE
        LET cpu ==
                IF rs.cpu_count # None
                THEN <<[value |-> PyStrOfInt(cpu_count_int(rs.cpu_count[1])),
                        type |-> "VCPU"]>>
                ELSE <<>>
            cpulog ==
                IF rs.cpu_count # None
                   /\ cpu_count_int(rs.cpu_count[1]) * CpuDenom # rs.cpu_count[1]
                THEN <<[level |-> "info", what |-> "cpu converted"]>>
                ELSE <<>>
            gpu ==
                IF rs.gpu_count # None
                THEN <<[value |-> PyStrOfInt(rs.gpu_count[1]), type |-> "GPU"]>>
                ELSE <<>>
            mem ==
                IF get_memory_MiB(rs) # None
                THEN LET m == get_memory_MiB(rs)[1]
                     IN <<[value |-> PyStrOfInt(m[1] \div m[2]),
                           type |-> "MEMORY"]>>
                ELSE <<>>
        IN [mapped |-> cpu \o gpu \o mem, logged |-> cpulog]

----------------------------------------------------------------------------
(* generate_unique_batch_job_name *)

SuffixAlphabet == {"x", "y"}

\* zenml.utils.string_utils.random_str(n): the strings it can return
random_str(n) == [1..n -> SuffixAlphabet]

\* the name without the [:55]
job_name_untruncated(pipeline_name, step_name) ==
    pipeline_name \o <<"-">> \o step_name

\* job_name = f"{info.pipeline.name}-{step_name}"[:55]
job_name(pipeline_name, step_name) ==
    Slice(pipeline_name \o <<"-">> \o step_name, NameLimit)

\* suffix is what random_str(4) returned
generate_unique_batch_job_name(pipeline_name, step_name, suffix) ==
    job_name(pipeline_name, step_name) \o <<"-">> \o suffix

----------------------------------------------------------------------------
(* The pydantic models of the job definition *)

Model(cls, fields) == [t |-> "model", cls |-> cls, v |-> fields]
PyTuple(xs) == [t |-> "tuple", v |-> xs]

\* pydantic accepts, for a field annotated with a model class, an instance
\* of that class (or a dict to parse); any other value is a ValidationError
IsInstance(x, cls) == x.t = "model" /\ x.cls = cls

ValidOptional(x, cls) == x = None \/ IsInstance(x[1], cls)

\* every field is given as a str or a list of the annotated type; secrets
\* keeps its default
AWSBatchJobDefinitionContainerProperties(kw) ==
    Return(Model("AWSBatchJobDefinitionContainerProperties",
                 [image |-> kw.image,
                  command |-> kw.command,
                  jobRoleArn |-> kw.jobRoleArn,
                  executionRoleArn |-> kw.executionRoleArn,
                  environment |-> kw.environment,
                  instanceType |-> kw.instanceType,
                  resourceRequirements |-> kw.resourceRequirements,
                  secrets |-> <<>>]))

AWSBatchJobDefinitionNodePropertiesNodeRangeProperty(targetNodes, container) ==
    IF IsInstance(container, "AWSBatchJobDefinitionContainerProperties")
    THEN Return(Model("AWSBatchJobDefinitionNodePropertiesNodeRangeProperty",
                      [targetNodes |-> targetNodes, container |-> container]))
    ELSE Raise("ValidationError")

\* numNodes: PositiveInt, mainNode: int = 0
AWSBatchJobDefinitionNodeProperties(numNodes, nodeRangeProperties) ==
    IF numNodes >= 1
    THEN Return(Model("AWSBatchJobDefinitionNodeProperties",
                      [numNodes |-> numNodes,
                       mainNode |-> 0,
                       nodeRangeProperties |-> nodeRangeProperties]))
    ELSE Raise("ValidationError")

\* kwargs holds type and the one of containerProperties and nodeProperties
\* the caller passes; the other one keeps its default, None
AWSBatchJobDefinition(jobDefinitionName, timeout, kwargs) ==
    IF /\ kwargs.type \in {"container", "multinode"}
       /\ ValidOptional(kwargs.containerProperties,
                        "AWSBatchJobDefinitionContainerProperties")
       /\ ValidOptional(kwargs.nodeProperties,
                        "AWSBatchJobDefinitionNodeProperties")
    THEN Return(Model("AWSBatchJobDefinition",
                      [jobDefinitionName |-> jobDefinitionName,
                       type |-> kwargs.type,
                       containerProperties |-> kwargs.containerProperties,
                       nodeProperties |-> kwargs.nodeProperties,
                       timeout |-> timeout,
                       platformCapabilities |-> "EC2"]))
    ELSE Raise("ValidationError")

----------------------------------------------------------------------------
(* generate_job_definition *)

\* the value of the AWSBatchJobDefinitionContainerProperties(...) call
container_properties_instance(i) ==
    AWSBatchJobDefinitionContainerProperties(
        [image |-> i.image,
         command |-> i.entrypoint_command,
         jobRoleArn |-> i.job_role,
         executionRoleArn |-> i.execution_role,
         environment |-> map_environment(i.environment),
         instanceType |-> i.instance_type,
         resourceRequirements |->
             map_resource_settings(i.resource_settings).mapped])

\* ','.join([str(node_index) for node_index in range(node_count)])
target_nodes(node_count) ==
    Join(<<",">>, [k \in 1..node_count |-> PyStrOfInt(k - 1)])

\* lines 348-374: the definition built around container_properties
build_job_definition(i, name, container_properties) ==
    LET node_count == i.node_count
        timeout == [attemptDurationSeconds |-> i.timeout_seconds]
    IN  IF node_count = 1
        THEN AWSBatchJobDefinition(name, timeout,
                 [type |-> "container",
                  containerProperties |-> Some(container_properties),
                  nodeProperties |-> None])
        ELSE
            LET range == AWSBatchJobDefinitionNodePropertiesNodeRangeProperty(
                             target_nodes(node_count), container_properties)
            IN  IF ~range.ok THEN range
                ELSE
                    LET np == AWSBatchJobDefinitionNodeProperties(
                                  node_count, <<range.v>>)
                    IN  IF ~np.ok THEN np
                        ELSE AWSBatchJobDefinition(name, timeout,
                                 [type |-> "multinode",
                                  containerProperties |-> None,
                                  nodeProperties |-> Some(np.v)])

\* the definition as a plain dict: no pydantic model is constructed
generate_job_definition_unvalidated(i, suffix) ==
    Return(Model("AWSBatchJobDefinition",
                 [jobDefinitionName |->
                      generate_unique_batch_job_name(i.pipeline_name,
                                                     i.step_name, suffix),
                  type |-> IF i.node_count = 1 THEN "container" ELSE "multinode",
                  containerProperties |-> None,
                  nodeProperties |-> None,
                  timeout |-> [attemptDurationSeconds |-> i.timeout_seconds],
                  platformCapabilities |-> "EC2"]))

\* "container_properties = AWSBatchJobDefinitionContainerProperties(...),"
\* ends in a comma: container_properties is a 1-tuple holding the instance
generate_job_definition(i, suffix) ==
    LET name == generate_unique_batch_job_name(i.pipeline_name, i.step_name,
                                               suffix)
        cp == container_properties_instance(i)
    IN  IF ~cp.ok THEN cp
        ELSE build_job_definition(i, name, PyTuple(<<cp.v>>))

----------------------------------------------------------------------------
(* Inputs *)

MemoryChoices == {512 * 1024, 1536}     \* KiB: 512 MiB and 1.5 MiB

ResourceSettingsChoices ==
    [cpu_count : {None} \cup {Some(n) : n \in 1..MaxCpuNum},
     gpu_count : {None} \cup {Some(g) : g \in 0..MaxGpu},
     memory : {None} \cup {Some(m) : m \in MemoryChoices}]

DefaultInfo ==
    [pipeline_name |-> <<"p">>,
     step_name |-> <<"s">>,
     resource_settings |-> [cpu_count |-> None, gpu_count |-> None,
                            memory |-> None],
     node_count |-> 1,
     timeout_seconds |-> 60,
     instance_type |-> "optimal",
     image |-> "image",
     entrypoint_command |-> <<"python", "-m", "entrypoint">>,
     environment |-> <<<<"KEY", "value">>>>,
     job_role |-> "job-role",
     execution_role |-> "execution-role",
     job_queue_name |-> "queue"]

Idle ==
    /\ result = None
    /\ logs = <<>>
    /\ job_definition = None
    /\ job_definition_name = None
    /\ job_id = None
    /\ response = None
    /\ error = None
    /\ calls = <<>>

----------------------------------------------------------------------------
(* The helpers, each called on its own *)

NameInfos ==
    {[DefaultInfo EXCEPT !.pipeline_name = Rep("p", a),
                         !.step_name = Rep("s", b)] :
        a \in 1..MaxNameLen, b \in 1..MaxNameLen}

InitName == info \in NameInfos /\ pc = "call" /\ Idle

call_generate_unique_batch_job_name ==
    /\ pc = "call"
    /\ \E suffix \in random_str(SuffixLen) :
           result' = Some(generate_unique_batch_job_name(
                              info.pipeline_name, info.step_name, suffix))
    /\ pc' = "returned"
    /\ UNCHANGED <<info, logs, job_definition, job_definition_name, job_id,
                   response, error, calls>>

NextName == call_generate_unique_batch_job_name

SpecName == InitName /\ [][NextName]_vars

ResourceInfos ==
    {[DefaultInfo EXCEPT !.resource_settings = rs] :
        rs \in ResourceSettingsChoices}

InitResources == info \in ResourceInfos /\ pc = "call" /\ Idle

call_map_resource_settings ==
    /\ pc = "call"
    /\ result' = Some(map_resource_settings(info.resource_settings).mapped)
    /\ logs' = logs \o map_resource_settings(info.resource_settings).logged
    /\ pc' = "returned"
    /\ UNCHANGED <<info, job_definition, job_definition_name, job_id,
                   response, error, calls>>

NextResources == call_map_resource_settings

SpecResources == InitResources /\ [][NextResources]_vars

----------------------------------------------------------------------------
(* launch, from its first line *)

LaunchInfos ==
    {[DefaultInfo EXCEPT !.resource_settings = rs, !.node_count = n] :
        rs \in ResourceSettingsChoices, n \in 0..MaxNodes}

Init == info \in LaunchInfos /\ pc = "launch" /\ Idle

\* line 420: job_definition = self.generate_job_definition(...); an
\* exception of the call leaves launch
launch_generate_job_definition ==
    /\ pc = "launch"
    /\ \E suffix \in random_str(SuffixLen) :
           LET r == generate_job_definition(info, suffix)
           IN  IF r.ok
               THEN /\ job_definition' = Some(r.v)
                    /\ pc' = "register"
                    /\ error' = error
               ELSE /\ job_definition' = job_definition
                    /\ pc' = "raised"
                    /\ error' = Some([exc |-> r.exc, msg |-> <<>>])
    /\ logs' = logs \o map_resource_settings(info.resource_settings).logged
    /\ UNCHANGED <<info, result, job_definition_name, job_id, response, calls>>

\* generate_job_definition raises for every input (the 1-tuple is no
\* container properties instance), so line 420 is the only step launch takes
Next == launch_generate_job_definition

Spec == Init /\ [][Next]_vars

----------------------------------------------------------------------------
(* launch, from line 422 on: the calls on the batch client *)

\* what the remote service can answer
Statuses == {"RUNNABLE", "RUNNING", "SUCCEEDED", "FAILED"}
StatusReasons == {None, Some(<<"OutOfMemoryError">>)}
ClientExceptions == {"ClientError", "EndpointConnectionError"}
JobIds == {<<"j", "1">>, <<"j", "2">>}
DefinitionHandles(name) == {name, <<"a", "r", "n">>}

RegisterOutcomes(name) ==
    {Return(h) : h \in DefinitionHandles(name)}
        \cup {Raise(e) : e \in ClientExceptions}

SubmitOutcomes ==
    {Return(j) : j \in JobIds} \cup {Raise(e) : e \in ClientExceptions}

DescribeOutcomes ==
    {Return([status |-> st, statusReason |-> sr]) :
        st \in Statuses, sr \in StatusReasons}
        \cup {Raise(e) : e \in ClientExceptions}

\* one entry of calls
Call(op, arg, name, out, ret) ==
    [op |-> op, arg |-> arg, name |-> name, ok |-> out.ok, exc |-> out.exc,
     ret |-> ret, secs |-> 0]

Sleep(secs) ==
    [op |-> "sleep", arg |-> <<>>, name |-> <<>>, ok |-> TRUE, exc |-> "",
     ret |-> <<>>, secs |-> secs]

NumCalls(op) == Cardinality({k \in 1..Len(calls) : calls[k].op = op})

\* Lines 422-453 are modelled from the point where launch holds a job
\* definition: the definitions that lines 348-374 build around a container
\* properties instance.  As written, line 420 hands launch none (see Next),
\* so what is shown of SpecEngine is shown of these lines, given a definition.
EngineInfos == {[DefaultInfo EXCEPT !.node_count = n] : n \in 1..2}
EngineSuffixes == {Rep("x", SuffixLen), Rep("y", SuffixLen)}

InitEngine ==
    /\ info \in EngineInfos
    /\ pc = "register"
    /\ result = None
    /\ logs = <<>>
    /\ \E suffix \in EngineSuffixes :
           job_definition =
               Some(build_job_definition(
                        info,
                        generate_unique_batch_job_name(
                            info.pipeline_name, info.step_name, suffix),
                        container_properties_instance(info).v).v)
    /\ job_definition_name = None
    /\ job_id = None
    /\ response = None
    /\ error = None
    /\ calls = <<>>

\* lines 424-428: an exception of the client leaves launch
launch_register_job_definition ==
    /\ pc = "register"
    /\ \E out \in RegisterOutcomes(job_definition[1].v.jobDefinitionName) :
           /\ calls' = Append(calls,
                  Call("register_job_definition",
                       job_definition[1].v.jobDefinitionName, <<>>, out,
                       out.v))
           /\ IF out.ok
              THEN /\ job_definition_name' = Some(out.v)
                   /\ pc' = "submit"
                   /\ error' = error
              ELSE /\ job_definition_name' = job_definition_name
                   /\ pc' = "raised"
                   /\ error' = Some([exc |-> out.exc, msg |-> <<>>])
    /\ UNCHANGED <<info, result, logs, job_definition, job_id, response>>

\* submit_job(jobDefinition=job_definition.jobDefinitionName)
submit_job_definition_argument_local == job_definition[1].v.jobDefinitionName

\* line 433: jobDefinition=job_definition_name
submit_job_definition_argument == job_definition_name[1]

\* lines 430-436
launch_submit_job ==
    /\ pc = "submit"
    /\ \E out \in SubmitOutcomes :
           /\ calls' = Append(calls,
                  Call("submit_job", submit_job_definition_argument,
                       job_definition[1].v.jobDefinitionName, out, out.v))
           /\ IF out.ok
              THEN /\ job_id' = Some(out.v)
                   /\ pc' = "poll"
                   /\ error' = error
              ELSE /\ job_id' = job_id
                   /\ pc' = "raised"
                   /\ error' = Some([exc |-> out.exc, msg |-> <<>>])
    /\ UNCHANGED <<info, result, logs, job_definition, job_definition_name,
                   response>>

\* f'Job {job_id} failed: {status_reason}'
FailedMessage(id, status_reason) ==
    <<"J", "o", "b", " ">> \o id \o <<" ", "f", "a", "i", "l", "e", "d", ":", " ">>
        \o status_reason

\* response['jobs'][0].get('statusReason', 'Unknown')
StatusReasonOf(job) ==
    IF job.statusReason = None THEN <<"U", "n", "k", "n", "o", "w", "n">>
    ELSE job.statusReason[1]

\* "except ClientError" without the raise, then the next turn of the loop
after_client_error_swallowed == "poll"

\* lines 451-453: the handler ends in a bare raise
after_client_error == "raised"

\* time.sleep(20)
sleep_between_polls_doubled == <<Sleep(2 * PollInterval)>>

\* line 450
sleep_between_polls == <<Sleep(PollInterval)>>

\* one turn of the loop of lines 438-453: the query, the comparison of the
\* status (a str) with the lists ['SUCCEEDED'] and ['FAILED'], and the sleep
launch_describe_jobs ==
    /\ pc = "poll"
    /\ NumCalls("describe_jobs") < MaxPolls
    /\ \E out \in DescribeOutcomes :
           LET describe == Call("describe_jobs", job_id[1], <<>>, out,
                                IF out.ok THEN <<out.v.status>> ELSE <<>>)
           IN  /\ response' = Some(out)
               /\ IF ~out.ok
                  THEN IF out.exc = "ClientError"
                       THEN /\ logs' = Append(logs,
                                   [level |-> "error",
                                    what |-> "failed to describe job"])
                            /\ pc' = after_client_error
                            /\ error' = Some([exc |-> out.exc, msg |-> <<>>])
                            /\ calls' = Append(calls, describe)
                       ELSE /\ logs' = logs
                            /\ pc' = "raised"
                            /\ error' = Some([exc |-> out.exc, msg |-> <<>>])
                            /\ calls' = Append(calls, describe)
                  ELSE IF PyEq(PyStr(out.v.status), PyList(<<"SUCCEEDED">>))
                       THEN /\ logs' = Append(logs,
                                   [level |-> "info",
                                    what |-> "job completed successfully"])
                            /\ pc' = "done"
                            /\ error' = error
                            /\ calls' = Append(calls, describe)
                  ELSE IF PyEq(PyStr(out.v.status), PyList(<<"FAILED">>))
                       THEN /\ logs' = logs
                            /\ pc' = "raised"
                            /\ error' = Some(
                                   [exc |-> "RuntimeError",
                                    msg |-> FailedMessage(job_id[1],
                                                StatusReasonOf(out.v))])
                            /\ calls' = Append(calls, describe)
                  ELSE /\ logs' = logs
                       /\ pc' = "poll"
                       /\ error' = error
                       /\ calls' = Append(calls, describe)
                                       \o sleep_between_polls
    /\ UNCHANGED <<info, result, job_definition, job_definition_name, job_id>>

NextEngine ==
    \/ launch_register_job_definition
    \/ launch_submit_job
    \/ launch_describe_jobs

SpecEngine == InitEngine /\ [][NextEngine]_vars

----------------------------------------------------------------------------
(* Reading a result back, for the properties *)

IsDigit(c) == \E d \in 1..Len(DigitChars) : DigitChars[d] = c

DigitValue(c) == (CHOOSE d \in 1..Len(DigitChars) : DigitChars[d] = c) - 1

\* s is the decimal numeral of a natural number, without leading zeros
IsDecimal(s) ==
    /\ Len(s) >= 1
    /\ \A k \in 1..Len(s) : IsDigit(s[k])
    /\ Len(s) > 1 => s[1] # "0"

RECURSIVE ParseNat(_)
ParseNat(s) ==
    IF s = <<>> THEN 0
    ELSE 10 * ParseNat(SubSeq(s, 1, Len(s) - 1)) + DigitValue(s[Len(s)])

\* character k of f"{pipeline_name}-{step_name}"
FullNameChar(k) ==
    IF k <= Len(info.pipeline_name) THEN info.pipeline_name[k]
    ELSE IF k = Len(info.pipeline_name) + 1 THEN "-"
    ELSE info.step_name[k - Len(info.pipeline_name) - 1]

FullNameLen == Len(info.pipeline_name) + 1 + Len(info.step_name)

OnlyCpuSet ==
    /\ info.resource_settings.cpu_count # None
    /\ info.resource_settings.gpu_count = None
    /\ info.resource_settings.memory = None

\* with only cpu_count = c set, the mapper returned one entry of type typ
\* whose value is the numeral of the least integer >= c, and logged one
\* conversion line exactly when c is not an integer
CpuOnlyMappedAs(typ) ==
    (pc = "returned" /\ OnlyCpuSet) =>
        LET c == info.resource_settings.cpu_count[1]
            r == result[1]
        IN  /\ Len(r) = 1
            /\ r[1].type = typ
            /\ IsDecimal(r[1].value)
            /\ ParseNat(r[1].value) * CpuDenom >= c
            /\ (ParseNat(r[1].value) - 1) * CpuDenom < c
            /\ Len(logs) = (IF c % CpuDenom = 0 THEN 0 ELSE 1)
            /\ \A k \in 1..Len(logs) :
                   logs[k] = [level |-> "info", what |-> "cpu converted"]

----------------------------------------------------------------------------
(* Properties of the helpers *)

\* C8, as stated: for a request with only CPU set to c, map_resource_settings
\* returns exactly one entry, of type CPU, whose value is str(ceil(c)), and
\* logs one conversion line if c is not an integer and none if it is.
C8_CpuEntryOfTypeCPU == CpuOnlyMappedAs("CPU")

\* C8, amended: the same, with the entry's type being VCPU.
C8_CpuEntryOfTypeVCPU == CpuOnlyMappedAs("VCPU")

\* C8 witness: cpu_count 2.3 alone was mapped to the entry "3" with one log line.
C8_Witness ==
    /\ pc = "returned"
    /\ OnlyCpuSet
    /\ info.resource_settings.cpu_count[1] * 10 = 23 * CpuDenom
    /\ result[1][1].value = <<"3">>
    /\ Len(logs) = 1

\* C9: generate_unique_batch_job_name returns the first 55 characters (or
\* all, if fewer) of '<pipeline>-<step>', then '-', then a 4-character
\* suffix; the result is at most 60, so never more than 63, characters long.
C9_NameTruncatedAndBounded ==
    pc = "returned" =>
        LET r == result[1]
            head == Min(FullNameLen, 55)
        IN  /\ Len(r) = head + 1 + 4
            /\ Len(r) <= 60
            /\ Len(r) <= 63
            /\ \A k \in 1..head : r[k] = FullNameChar(k)
            /\ r[head + 1] = "-"
            /\ \A k \in (head + 2)..(head + 5) : r[k] \in SuffixAlphabet

\* C9 witness: a '<pipeline>-<step>' longer than 55 was cut and the name is 60 long.
C9_Witness ==
    /\ pc = "returned"
    /\ FullNameLen > 55
    /\ Len(result[1]) = 60

----------------------------------------------------------------------------
(* Properties of the compiler inside launch *)

\* C5: with node_count below 1, generate_job_definition raises a validation
\* error and launch goes no further than line 420: no definition is held and
\* the batch client is never called; and launch holds a definition only if
\* it was validated with a node count of at least 1.
C5_InvalidNodeCountStopsLaunch ==
    /\ info.node_count < 1 =>
           /\ pc \in {"launch", "raised"}
           /\ job_definition = None
           /\ calls = <<>>
           /\ pc = "raised" => error[1].exc = "ValidationError"
    /\ (pc = "register" \/ job_definition # None) =>
           /\ info.node_count >= 1
           /\ job_definition # None
           /\ IsInstance(job_definition[1], "AWSBatchJobDefinition")

\* C5 witness: a launch with node_count = 0 ended in a validation error
\* without a call on the client.
C5_Witness ==
    /\ info.node_count = 0
    /\ pc = "raised"
    /\ error[1].exc = "ValidationError"
    /\ calls = <<>>

\* C6: once generate_job_definition has been called with node_count n >= 2,
\* launch holds a definition of type 'multinode' whose nodeProperties has
\* numNodes = n, mainNode = 0 and one node range with targetNodes "0,...,n-1"
\* and the shared container properties.
C6_MultinodeDefinition ==
    (pc # "launch" /\ info.node_count >= 2) =>
        /\ job_definition # None
        /\ job_definition[1].v.type = "multinode"
        /\ job_definition[1].v.nodeProperties # None
        /\ LET np == job_definition[1].v.nodeProperties[1].v
           IN  /\ np.numNodes = info.node_count
               /\ np.mainNode = 0
               /\ Len(np.nodeRangeProperties) = 1
               /\ np.nodeRangeProperties[1].v.targetNodes
                      = target_nodes(info.node_count)
               /\ np.nodeRangeProperties[1].v.container
                      = container_properties_instance(info).v

\* C7: a definition that generate_job_definition returned has exactly one
\* of containerProperties and nodeProperties set, the one its type names;
\* and for node_count = 1 it returns one, of type 'container'.
C7_ExactlyOnePayload ==
    /\ job_definition # None =>
           LET d == job_definition[1].v
           IN  \/ /\ d.type = "container"
                  /\ d.containerProperties # None
                  /\ d.nodeProperties = None
               \/ /\ d.type = "multinode"
                  /\ d.nodeProperties # None
                  /\ d.containerProperties = None
    /\ (pc # "launch" /\ info.node_count = 1) =>
           /\ job_definition # None
           /\ job_definition[1].v.type = "container"
           /\ job_definition[1].v.containerProperties # None
           /\ job_definition[1].v.nodeProperties = None

----------------------------------------------------------------------------
(* Properties of the calls on the batch client *)

Contains(s, sub) ==
    \E k \in 0..(Len(s) - Len(sub)) : SubSeq(s, k + 1, k + Len(sub)) = sub

IsDescribe(k) == calls[k].op = "describe_jobs"

Terminal(status) == status \in {"SUCCEEDED", "FAILED"}

LastQueryReported(status) ==
    /\ response # None
    /\ response[1].ok
    /\ response[1].v.status = status

\* C1: once describe_jobs has reported SUCCEEDED, launch has left the loop
\* and returned normally, and that query is its last call.
C1_SucceededReturns ==
    LastQueryReported("SUCCEEDED") =>
        /\ pc = "done"
        /\ error = None
        /\ IsDescribe(Len(calls))

\* C2: once describe_jobs has reported FAILED, launch has raised an error
\* whose text holds the job id and the statusReason ("Unknown" if there is
\* none), that query is its last call, and it has not returned normally.
C2_FailedRaises ==
    LastQueryReported("FAILED") =>
        /\ pc = "raised"
        /\ error # None
        /\ Contains(error[1].msg, job_id[1])
        /\ Contains(error[1].msg, StatusReasonOf(response[1].v))
        /\ IsDescribe(Len(calls))

\* C3: a describe_jobs call that raised ClientError is the last entry of
\* calls (no query, sleep or submission follows it), launch has raised that
\* ClientError, and the last log line is the error line about it.
C3_QueryErrorPropagates ==
    \A k \in 1..Len(calls) :
        (IsDescribe(k) /\ calls[k].exc = "ClientError") =>
            /\ k = Len(calls)
            /\ pc = "raised"
            /\ error = Some([exc |-> "ClientError", msg |-> <<>>])
            /\ logs # <<>>
            /\ logs[Len(logs)] = [level |-> "error",
                                  what |-> "failed to describe job"]

\* C3 witness: after a first query that reported RUNNING, the second raised
\* ClientError and launch raised it.
C3_Witness ==
    /\ pc = "raised"
    /\ NumCalls("describe_jobs") = 2
    /\ calls[Len(calls)].op = "describe_jobs"
    /\ calls[Len(calls)].exc = "ClientError"
    /\ error[1].exc = "ClientError"

\* C4: the first call is register_job_definition and the second submit_job,
\* each made once; submit_job follows a registration that succeeded and
\* passes the name it returned; every describe_jobs follows a submission
\* that succeeded and passes the job id it returned; a registration or
\* submission that raised is the last call and launch has raised its error.
C4_CallOrder ==
    /\ NumCalls("register_job_definition") <= 1
    /\ NumCalls("submit_job") <= 1
    /\ \A k \in 1..Len(calls) :
           /\ (k = 1) <=> (calls[k].op = "register_job_definition")
           /\ (k = 2) <=> (calls[k].op = "submit_job")
           /\ calls[k].op = "submit_job" =>
                  /\ calls[1].ok
                  /\ calls[k].arg = calls[1].ret
           /\ IsDescribe(k) =>
                  /\ calls[2].ok
                  /\ calls[k].arg = calls[2].ret
           /\ (calls[k].op \in {"register_job_definition", "submit_job"}
                   /\ ~calls[k].ok) =>
                  /\ k = Len(calls)
                  /\ pc = "raised"
                  /\ error = Some([exc |-> calls[k].exc, msg |-> <<>>])

\* C4 witness: registration returned a name other than the local one,
\* submission passed it, and a status query passed the returned job id.
C4_Witness ==
    /\ Len(calls) >= 3
    /\ calls[1].ret # calls[1].arg
    /\ calls[2].arg = calls[1].ret
    /\ IsDescribe(3)
    /\ calls[3].arg = calls[2].ret

\* C10: a describe_jobs call that reported a non-terminal status is followed
\* by one sleep of 10 and then by nothing but the next describe_jobs call,
\* with launch still polling and no error raised; a sleep only ever follows
\* a query; and launch has left the loop only after a query that raised or
\* reported a terminal status.
C10_PollingContinues ==
    /\ \A k \in 1..Len(calls) :
           /\ (IsDescribe(k) /\ calls[k].ok /\ ~Terminal(calls[k].ret[1])) =>
                  /\ k < Len(calls)
                  /\ calls[k + 1] = Sleep(10)
                  /\ k + 2 <= Len(calls) => IsDescribe(k + 2)
                  /\ k + 1 = Len(calls) => (pc = "poll" /\ error = None)
           /\ calls[k].op = "sleep" =>
                  /\ k > 1
                  /\ IsDescribe(k - 1)
                  /\ calls[k].secs = 10
    /\ (pc \in {"done", "raised"} /\ NumCalls("describe_jobs") > 0) =>
           /\ IsDescribe(Len(calls))
           /\ \/ ~calls[Len(calls)].ok
              \/ Terminal(calls[Len(calls)].ret[1])

\* C10 witness: MaxPolls queries in a row reported RUNNABLE or RUNNING, each
\* followed by a sleep, and launch is still polling.
C10_Witness ==
    /\ pc = "poll"
    /\ NumCalls("describe_jobs") = MaxPolls
    /\ NumCalls("sleep") = MaxPolls
    /\ \A k \in 1..Len(calls) :
           IsDescribe(k) => (calls[k].ok /\ ~Terminal(calls[k].ret[1]))

====
